---- MODULE Spec2Model ----
(***************************************************************************)
(* bbse: Backward Binary Search Encoding (src/src/lib.rs).                 *)
(*                                                                         *)
(* encode_from / encode record the decisions of a binary search for        *)
(* `target` in [start, end); decode replays them.  The three functions are *)
(* pure; they are modelled twice from the same loop bodies: as operators   *)
(* (EncodeFrom, Encode, Decode) and as a step machine that runs one call   *)
(* at a time, one loop iteration per step.  A panic (a failed assert!) is  *)
(* the state pc = "panic" with the assertion's message in panicMsg.        *)
(*                                                                         *)
(* All values are at most MaxEnd, far below usize::MAX / 2, so no usize    *)
(* operation wraps here: left + right is computed on small operands only.  *)
(***************************************************************************)
EXTENDS Integers, Sequences, FiniteSets, TLC

\* Largest value tried for start, end, target and midpoint.
MaxEnd == 10
\* Longest bit path handed to decode directly.
MaxPathLen == 5

\* The usize arguments tried.
Usize == 0 .. MaxEnd

\* The BitVec<u8, Msb0> values tried: every bit sequence up to MaxPathLen.
BitVecs == UNION { [1 .. n -> BOOLEAN] : n \in 0 .. MaxPathLen }

\* The assertion messages.
InvalidRange == "Invalid range"
TargetOutOfBounds == "target out of bounds"
MidpointOutOfBounds == "midpoint must be within (start, end)"
IncompletePath == "incomplete or invalid path"

----------------------------------------------------------------------------
(* The functions, as the code computes them.                               *)

\* (left + right) / 2, usize division.
Mid(l, r) == (l + r) \div 2

\* encode_from with the target checked before the range.
EncodeFromEntryTargetFirst(s, e, t, m) ==
  LET at(p, msg) == [pc |-> p, msg |-> msg, left |-> s, right |-> e,
                     mid |-> m, path |-> << >>]
  IN  IF ~(s <= t /\ t < e) THEN at("panic", TargetOutOfBounds)
      ELSE IF ~(s < e) THEN at("panic", InvalidRange)
      ELSE IF e - s <= 1 THEN at("encode_ret", "")
      ELSE IF ~(s < m /\ m < e) THEN at("panic", MidpointOutOfBounds)
      ELSE at("encode_loop", "")

\* encode_from with the midpoint checked before the singleton short cut.
EncodeFromEntryMidpointFirst(s, e, t, m) ==
  LET at(p, msg) == [pc |-> p, msg |-> msg, left |-> s, right |-> e,
                     mid |-> m, path |-> << >>]
  IN  IF ~(s < e) THEN at("panic", InvalidRange)
      ELSE IF ~(s <= t /\ t < e) THEN at("panic", TargetOutOfBounds)
      ELSE IF ~(s < m /\ m < e) THEN at("panic", MidpointOutOfBounds)
      ELSE IF e - s <= 1 THEN at("encode_ret", "")
      ELSE at("encode_loop", "")

\* encode_from that checks the supplied midpoint and then splits at the
\* centre of the range all the same.
EncodeFromEntryCentreOnly(s, e, t, m) ==
  LET at(p, msg) == [pc |-> p, msg |-> msg, left |-> s, right |-> e,
                     mid |-> Mid(s, e), path |-> << >>]
  IN  IF ~(s < e) THEN at("panic", InvalidRange)
      ELSE IF ~(s <= t /\ t < e) THEN at("panic", TargetOutOfBounds)
      ELSE IF e - s <= 1 THEN at("encode_ret", "")
      ELSE IF ~(s < m /\ m < e) THEN at("panic", MidpointOutOfBounds)
      ELSE at("encode_loop", "")

\* What encode_from does before its loop: the assertions, the singleton
\* short cut, the locals' first values.  pc says where control goes next.
EncodeFromEntry(s, e, t, m) ==
  LET at(p, msg) == [pc |-> p, msg |-> msg, left |-> s, right |-> e,
                     mid |-> m, path |-> << >>]
  IN  IF ~(s < e) THEN at("panic", InvalidRange)
      ELSE IF ~(s <= t /\ t < e) THEN at("panic", TargetOutOfBounds)
      ELSE IF e - s <= 1 THEN at("encode_ret", "")
      ELSE IF ~(s < m /\ m < e) THEN at("panic", MidpointOutOfBounds)
      ELSE at("encode_loop", "")

\* The loop's condition: while right - left > 1.
EncodeWhile(st) == st.right - st.left > 1

\* The loop's iteration with an early exit when the target is the midpoint:
\* no bit is pushed and the bounds close on the target.
EncodeBodyEarlyExit(st, t) ==
  IF t = st.mid
  THEN [left |-> t, right |-> t + 1, mid |-> st.mid, path |-> st.path]
  ELSE LET goLeft == t < st.mid
           l == IF goLeft THEN st.left ELSE st.mid
           r == IF goLeft THEN st.mid ELSE st.right
           p == Append(st.path, ~goLeft)
           new_range == r - l
       IN  [left |-> l, right |-> r,
            mid |-> IF new_range = 1 THEN st.mid ELSE Mid(l, r),
            path |-> p]

\* The loop's iteration with target <= mid for target < mid.
EncodeBodyLe(st, t) ==
  LET goLeft == t <= st.mid
      l == IF goLeft THEN st.left ELSE st.mid
      r == IF goLeft THEN st.mid ELSE st.right
      p == Append(st.path, ~goLeft)
      new_range == r - l
  IN  [left |-> l, right |-> r,
       mid |-> IF new_range = 1 THEN st.mid ELSE Mid(l, r),
       path |-> p]

\* The loop's iteration that never recomputes mid.
EncodeBodyStaleMid(st, t) ==
  LET goLeft == t < st.mid
      l == IF goLeft THEN st.left ELSE st.mid
      r == IF goLeft THEN st.mid ELSE st.right
      p == Append(st.path, ~goLeft)
  IN  [left |-> l, right |-> r, mid |-> st.mid, path |-> p]

\* One iteration of the loop on the locals st = [left, right, mid, path].
\* The break at new_range == 1 leaves mid as it is; the loop's condition
\* is false from then on.
EncodeBody(st, t) ==
  LET goLeft == t < st.mid
      l == IF goLeft THEN st.left ELSE st.mid
      r == IF goLeft THEN st.mid ELSE st.right
      p == Append(st.path, ~goLeft)
      new_range == r - l
  IN  [left |-> l, right |-> r,
       mid |-> IF new_range = 1 THEN st.mid ELSE Mid(l, r),
       path |-> p]

RECURSIVE EncodeLoop(_, _)
\* The whole loop: the path the locals st lead to.
EncodeLoop(st, t) ==
  IF EncodeWhile(st) THEN EncodeLoop(EncodeBody(st, t), t) ELSE st.path

\* encode_from(start, end, target, midpoint): [panic, path].
EncodeFrom(s, e, t, m) ==
  LET en == EncodeFromEntry(s, e, t, m)
  IN  IF en.pc = "panic" THEN [panic |-> en.msg, path |-> << >>]
      ELSE IF en.pc = "encode_ret" THEN [panic |-> "", path |-> en.path]
      ELSE [panic |-> "",
            path |-> EncodeLoop([left |-> en.left, right |-> en.right,
                                 mid |-> en.mid, path |-> en.path], t)]

\* encode(start, end, target).
Encode(s, e, t) == EncodeFrom(s, e, t, Mid(s, e))

\* decode's iteration with the two branches swapped.
DecodeBodySwapped(s, e, bit) ==
  LET m == Mid(s, e) IN IF bit THEN << s, m >> ELSE << m, e >>

\* One iteration of decode's loop: the new <<start, end>>.
DecodeBody(s, e, bit) ==
  LET m == Mid(s, e) IN IF bit THEN << m, e >> ELSE << s, m >>

RECURSIVE DecodeLoop(_, _, _)
\* decode's loop over the whole path: the final <<start, end>>.
DecodeLoop(s, e, p) ==
  IF p = << >> THEN << s, e >>
  ELSE LET n == DecodeBody(s, e, Head(p)) IN DecodeLoop(n[1], n[2], Tail(p))

\* decode's final assertion weakened to start < end.
DecodeFinishLax(b) ==
  IF b[1] < b[2] THEN [panic |-> "", value |-> b[1]]
  ELSE [panic |-> IncompletePath, value |-> 0]

\* decode's final assertion on the narrowed bounds b = <<start, end>>.
DecodeFinish(b) ==
  IF b[1] + 1 = b[2] THEN [panic |-> "", value |-> b[1]]
  ELSE [panic |-> IncompletePath, value |-> 0]

\* decode(start, end, path): [panic, value].
Decode(s, e, p) == DecodeFinish(DecodeLoop(s, e, p))

\* decode_from's walk: the bounds left after the path, the first bit split
\* at the supplied midpoint and every later bit at the arithmetic midpoint.
DecodeFromWalk(s, e, p, m) ==
  IF p = << >> THEN << s, e >>
  ELSE IF Head(p) THEN DecodeLoop(m, e, Tail(p))
  ELSE DecodeLoop(s, m, Tail(p))

\* decode_from(start, end, path, midpoint): an empty path returns the
\* midpoint at once; otherwise the walk, then decode's final check.
DecodeFrom(s, e, p, m) ==
  IF p = << >> THEN [panic |-> "", value |-> m]
  ELSE DecodeFinish(DecodeFromWalk(s, e, p, m))

----------------------------------------------------------------------------
(* The step machine: one call, or an encode followed by the decode of its  *)
(* result as the tests do.                                                 *)

VARIABLES
  pc,        \* "idle", "encode_loop", "encode_ret", "decode_loop",
             \* "decode_ret", "panic"
  fn,        \* the function called from idle: "encode", "encode_from", "decode"
  start, end, target, midpoint,   \* the arguments (midpoint: encode_from's)
  left, right, mid, path,         \* encode_from's locals
  encoded,   \* what the encoder returned: << >> nothing yet, <<p>> the path p
  dstart, dend,                   \* decode's mutable start and end
  dpath, di, \* decode's path and the index of the next bit
  decoded,   \* what decode returned: << >> nothing yet, <<v>> the value v
  panicMsg   \* the message of the failed assertion, "" when none

vars == << pc, fn, start, end, target, midpoint, left, right, mid, path,
           encoded, dstart, dend, dpath, di, decoded, panicMsg >>

encVars == << left, right, mid, path, encoded >>
decVars == << dstart, dend, dpath, di, decoded >>
argVars == << fn, start, end, target, midpoint >>

Init ==
  /\ pc = "idle" /\ fn = "none"
  /\ start = 0 /\ end = 0 /\ target = 0 /\ midpoint = 0
  /\ left = 0 /\ right = 0 /\ mid = 0 /\ path = << >>
  /\ encoded = << >>
  /\ dstart = 0 /\ dend = 0 /\ dpath = << >> /\ di = 1
  /\ decoded = << >>
  /\ panicMsg = ""

\* Entering encode_from with the arguments s, e, t, m.
EnterEncodeFrom(s, e, t, m) ==
  LET en == EncodeFromEntry(s, e, t, m)
  IN  /\ start' = s /\ end' = e /\ target' = t /\ midpoint' = m
      /\ pc' = en.pc
      /\ panicMsg' = en.msg
      /\ left' = en.left /\ right' = en.right /\ mid' = en.mid
      /\ path' = en.path
      /\ encoded' = IF en.pc = "encode_ret" THEN << en.path >> ELSE << >>
      /\ UNCHANGED decVars

\* encode(s, e, t): the midpoint is the centre of the range.
CallEncode ==
  /\ pc = "idle"
  /\ \E s \in Usize, e \in Usize, t \in Usize :
       /\ fn' = "encode"
       /\ EnterEncodeFrom(s, e, t, Mid(s, e))

\* encode_from(s, e, t, m).
CallEncodeFrom ==
  /\ pc = "idle"
  /\ \E s \in Usize, e \in Usize, t \in Usize, m \in Usize :
       /\ fn' = "encode_from"
       /\ EnterEncodeFrom(s, e, t, m)

\* One iteration of encode_from's loop.
EncodeStep ==
  /\ pc = "encode_loop"
  /\ LET st == [left |-> left, right |-> right, mid |-> mid, path |-> path]
     IN  /\ EncodeWhile(st)
         /\ LET n == EncodeBody(st, target)
            IN  /\ left' = n.left /\ right' = n.right /\ mid' = n.mid
                /\ path' = n.path
  /\ UNCHANGED << pc, argVars, encoded, decVars, panicMsg >>

\* The loop is over: encode_from returns path.
EncodeReturn ==
  /\ pc = "encode_loop"
  /\ ~EncodeWhile([left |-> left, right |-> right, mid |-> mid, path |-> path])
  /\ pc' = "encode_ret"
  /\ encoded' = << path >>
  /\ UNCHANGED << argVars, left, right, mid, path, decVars, panicMsg >>

\* decode(s, e, &p) on any range and any path.
CallDecode ==
  /\ pc = "idle"
  /\ \E s \in Usize, e \in Usize, p \in BitVecs :
       /\ fn' = "decode"
       /\ start' = s /\ end' = e
       /\ dstart' = s /\ dend' = e /\ dpath' = p /\ di' = 1
  /\ pc' = "decode_loop"
  /\ UNCHANGED << target, midpoint, encVars, decoded, panicMsg >>

\* decode(start, end, &bits) on the path the encoder just returned.
CallDecodeEncoded ==
  /\ pc = "encode_ret"
  /\ dstart' = start /\ dend' = end /\ dpath' = encoded[1] /\ di' = 1
  /\ pc' = "decode_loop"
  /\ UNCHANGED << argVars, encVars, decoded, panicMsg >>

\* One iteration of decode's loop: the next bit narrows the bounds.
DecodeStep ==
  /\ pc = "decode_loop"
  /\ di <= Len(dpath)
  /\ LET n == DecodeBody(dstart, dend, dpath[di])
     IN  dstart' = n[1] /\ dend' = n[2]
  /\ di' = di + 1
  /\ UNCHANGED << pc, argVars, encVars, dpath, decoded, panicMsg >>

\* The path is consumed: the final assertion, then the value.
DecodeReturn ==
  /\ pc = "decode_loop"
  /\ di > Len(dpath)
  /\ LET r == DecodeFinish(<< dstart, dend >>)
     IN  /\ pc' = IF r.panic = "" THEN "decode_ret" ELSE "panic"
         /\ panicMsg' = r.panic
         /\ decoded' = IF r.panic = "" THEN << r.value >> ELSE << >>
  /\ UNCHANGED << argVars, encVars, dstart, dend, dpath, di >>

Next ==
  \/ CallEncode
  \/ CallEncodeFrom
  \/ EncodeStep
  \/ EncodeReturn
  \/ CallDecode
  \/ CallDecodeEncoded
  \/ DecodeStep
  \/ DecodeReturn

Spec == Init /\ [][Next]_vars

\* A call runs to completion: the code is synchronous and nothing preempts it.
LiveSpec ==
  /\ Spec
  /\ WF_vars(EncodeStep) /\ WF_vars(EncodeReturn)
  /\ WF_vars(DecodeStep) /\ WF_vars(DecodeReturn)

TypeOK ==
  /\ pc \in {"idle", "encode_loop", "encode_ret", "decode_loop", "decode_ret", "panic"}
  /\ fn \in {"none", "encode", "encode_from", "decode"}
  /\ Len(encoded) <= 1 /\ Len(decoded) <= 1

----------------------------------------------------------------------------
(* Notions the properties are stated with.                                 *)

\* The call's range and target satisfy the encoder's preconditions.
ValidArgs == start < end /\ start <= target /\ target < end

\* The encoder has returned a path.
Returned == encoded # << >>

\* p is a prefix of q.
IsPrefix(p, q) == Len(p) <= Len(q) /\ SubSeq(q, 1, Len(p)) = p

\* The least k with 2^k >= n, for n >= 1.
CeilLog2(n) == CHOOSE k \in 0 .. n : 2 ^ k >= n /\ (k = 0 \/ 2 ^ (k - 1) < n)

\* decode(s, e, p) returned the value v.
DecodesTo(s, e, p, v) ==
  LET r == Decode(s, e, p) IN r.panic = "" /\ r.value = v

----------------------------------------------------------------------------
(* The properties.                                                         *)

\* C1: round trip. For every range with start < end and every target in it,
\* encode does not fail, and decode of the returned path against the same
\* range does not fail and returns exactly target.
C1_RoundTrip ==
  (fn = "encode" /\ ValidArgs) =>
    /\ pc # "panic"
    /\ Returned => DecodesTo(start, end, encoded[1], target)
    /\ pc = "decode_ret" => decoded = << target >>

C1_Witness ==
  /\ fn = "encode" /\ pc = "decode_ret"
  /\ start > 0 /\ end - start >= 5
  /\ Len(dpath) >= 3
  /\ decoded = << target >>

\* C2: round trip with a custom midpoint. For a valid range and target and
\* start < midpoint < end, walking the bits of encode_from's path from
\* [start, end), the first split at midpoint and every later one at
\* floor((lo + hi) / 2), ends with hi - lo = 1 and lo = target: decode_from
\* returns target.
C2_RoundTripFrom ==
  (fn = "encode_from" /\ ValidArgs /\ start < midpoint /\ midpoint < end) =>
    /\ panicMsg # MidpointOutOfBounds
    /\ Returned =>
         LET b == DecodeFromWalk(start, end, encoded[1], midpoint)
             r == DecodeFrom(start, end, encoded[1], midpoint)
         IN  /\ b[2] - b[1] = 1 /\ b[1] = target
             /\ r.panic = "" /\ r.value = target

C2_Witness ==
  /\ fn = "encode_from" /\ Returned /\ ValidArgs
  /\ start < midpoint /\ midpoint < end
  /\ midpoint # Mid(start, end)
  /\ Len(encoded[1]) >= 3
  /\ DecodeFrom(start, end, encoded[1], midpoint).value = target
  /\ Decode(start, end, encoded[1]).panic = IncompletePath

\* C3: exact length for powers of two. Whenever end - start = 2^k, the path
\* encode returns has exactly k bits, for every target of the range, a
\* target that equals a probed midpoint included.
C3_PowerOfTwoLength ==
  (fn = "encode" /\ ValidArgs /\ Returned) =>
    \A k \in 0 .. MaxEnd : (end - start = 2 ^ k) => Len(encoded[1]) = k

C3_Witness ==
  /\ fn = "encode" /\ Returned
  /\ start > 0 /\ end - start = 8
  /\ target = Mid(start, end)
  /\ Len(encoded[1]) = 3

\* C4: prefix-freeness. For a valid range and two distinct targets of it,
\* the path of the one is not a prefix of the path of the other.
C4_PrefixFree ==
  (fn = "encode" /\ ValidArgs /\ Returned) =>
    \A t2 \in start .. end - 1 :
      t2 # target =>
        LET r2 == Encode(start, end, t2)
        IN  r2.panic = "" /\ ~IsPrefix(encoded[1], r2.path)

C4_Witness ==
  /\ fn = "encode" /\ Returned /\ ValidArgs
  /\ end - start >= 5
  /\ \E t2 \in start .. end - 1 :
       /\ t2 # target
       /\ Len(Encode(start, end, t2).path) > Len(encoded[1])
       /\ IsPrefix(SubSeq(encoded[1], 1, Len(encoded[1]) - 1),
                   Encode(start, end, t2).path)

\* C5: the encoder rejects its input. encode fails with InvalidRange
\* whenever start >= end, whatever the target; when start < end it fails
\* with TargetOutOfBounds exactly when target < start or target >= end; in
\* both cases no path is returned.
C5_EncodeRejects ==
  (fn = "encode") =>
    /\ ~(start < end) =>
         pc = "panic" /\ panicMsg = InvalidRange /\ ~Returned
    /\ (start < end) =>
         /\ (pc = "panic" /\ panicMsg = TargetOutOfBounds)
              <=> (target < start \/ target >= end)
         /\ (target < start \/ target >= end) => ~Returned

C5_Witness ==
  /\ fn = "encode" /\ start = 10 /\ end = 10 /\ target = 10
  /\ pc = "panic" /\ panicMsg = InvalidRange /\ ~Returned

C7_TruncatedPath ==
  (/\ fn = "decode" /\ start < end
   /\ \E t \in start .. end - 1 :
        LET p == Encode(start, end, t).path
        IN  IsPrefix(dpath, p) /\ Len(dpath) < Len(p)) =>
    /\ pc # "decode_ret"
    /\ pc = "panic" => panicMsg = IncompletePath
    /\ Decode(start, end, dpath).panic = IncompletePath

C7_Witness ==
  /\ fn = "decode" /\ start = 0 /\ end = 3 /\ dpath = << TRUE >>
  /\ pc = "panic" /\ panicMsg = IncompletePath

\* C8: termination and length bound. For a valid range and target, encode's
\* loop ends and encode returns, and its path never has more than
\* ceil(log2(end - start)) bits.
C8_TerminatesWithinLog ==
  /\ [](fn = "encode" /\ ValidArgs => Len(path) <= CeilLog2(end - start))
  /\ (fn = "encode" /\ pc = "encode_loop") ~> Returned

C8_Witness ==
  /\ fn = "encode" /\ Returned /\ ValidArgs
  /\ end - start = 9
  /\ Len(encoded[1]) = 4

\* C9 as stated: encode returns the empty path exactly when end - start = 1
\* or the target equals the first probed midpoint floor((start + end) / 2).
C9_EmptyPathOriginal ==
  (fn = "encode" /\ ValidArgs /\ Returned) =>
    (encoded[1] = << >> <=> (end - start = 1 \/ target = Mid(start, end)))

\* C9, amended: encode returns the empty path exactly when end - start = 1;
\* in every other case, a target equal to the first probed midpoint
\* included, the path has at least one bit.
C9_EmptyPath ==
  (fn = "encode" /\ ValidArgs /\ Returned) =>
    /\ encoded[1] = << >> <=> end - start = 1
    /\ end - start # 1 => Len(encoded[1]) >= 1

C9_Witness ==
  /\ fn = "encode" /\ Returned /\ ValidArgs
  /\ end - start >= 2 /\ target = Mid(start, end)
  /\ Len(encoded[1]) >= 1 /\ Head(encoded[1]) = TRUE

\* C10: unique decodability of accepted paths. For a valid range, when
\* decode returns a value v then start <= v < end and the path is exactly
\* encode(start, end, v); a path that is no encoder output for the range
\* fails with IncompletePath.
C10_UniqueDecode ==
  (fn = "decode" /\ start < end) =>
    /\ pc = "decode_ret" =>
         /\ start <= decoded[1] /\ decoded[1] < end
         /\ dpath = Encode(start, end, decoded[1]).path
    /\ (/\ pc \in {"decode_ret", "panic"}
        /\ \A t \in start .. end - 1 : dpath # Encode(start, end, t).path)
         => pc = "panic" /\ panicMsg = IncompletePath

====
